---- MODULE Spec2Model ----
(***************************************************************************)
(* Model of the email-assistant extension: the side panel's request        *)
(* session (send / cancelStream / port listener / history), the            *)
(* background service worker's streaming port handler, and the provider    *)
(* adapter's streamAI.                                                     *)
(*                                                                         *)
(* Spec        the request lifecycle: side panel, ports, background        *)
(*             handlers and the clock.                                     *)
(* SpecStream  one call of streamAI over a framed response, read in        *)
(*             arbitrary chunks.                                           *)
(*                                                                         *)
(* Text is a sequence of symbols.  In Spec a response fragment of the      *)
(* request on port p is the symbol p, so that every text names the         *)
(* request that produced it.                                               *)
(***************************************************************************)
EXTENDS Integers, Sequences, FiniteSets, TLC

\* ------------------------------------------------------------------ bounds

\* Ports the side panel may open in one run.
MaxPorts == 2
\* Deltas one provider response may carry in Spec.
MaxDeltas == 1
\* The clock stops advancing here (milliseconds).
MaxNow == 3000
\* Records one provider response may carry in SpecStream.
MaxRecords == 2
\* Responses pushed onto the history in SpecHistory.
MaxPushes == 12
\* Length of the longest error body in SpecHttp.
MaxBodyLen == 205

\* ------------------------------------------------------- program constants

RATE_LIMIT_MS == 1000

\* addToHistory keeps at most this many entries.
HISTORY_MAX == 10

Providers == {"openai", "anthropic", "google", "deepseek", "azure"}

\* truncate(err, 200) in the error message of a failed HTTP request.
TRUNCATE_AT == 200

\* ------------------------------------------------------------ JS strings

\* A settings value: absent (undefined) or a string, a sequence of symbols.
Absent == [def |-> FALSE, s |-> <<>>]

Str(s) == [def |-> TRUE, s |-> s]

\* The white space String.prototype.trim strips, as far as the model has it.
WhiteSpace == {" ", "\r", "\n"}

RECURSIVE TrimLeft(_)
TrimLeft(s) ==
  IF s # <<>> /\ Head(s) \in WhiteSpace THEN TrimLeft(Tail(s)) ELSE s

RECURSIVE TrimRight(_)
TrimRight(s) ==
  IF s # <<>> /\ s[Len(s)] \in WhiteSpace
  THEN TrimRight(SubSeq(s, 1, Len(s) - 1))
  ELSE s

\* String.prototype.trim
Trim(s) == TrimRight(TrimLeft(s))

\* v?.trim(): undefined stays undefined
OptTrim(v) == IF v.def THEN Str(Trim(v.s)) ELSE Absent

\* JS truthiness of an optional string
Truthy(v) == v.def /\ v.s # <<>>

\* v || ''
OrEmpty(v) == IF Truthy(v) THEN v.s ELSE <<>>

\* ------------------------------------------------------- configuration

validateProvider(provider, cfg) ==
  CASE provider = "openai"    -> Truthy(OptTrim(cfg.openai_key))
    [] provider = "anthropic" -> Truthy(OptTrim(cfg.anthropic_key))
    [] provider = "google"    -> Truthy(OptTrim(cfg.google_key))
    [] provider = "deepseek"  -> Truthy(OptTrim(cfg.deepseek_key))
    [] provider = "azure"     -> /\ Truthy(OptTrim(cfg.azure_api_key))
                                 /\ Truthy(OptTrim(cfg.azure_endpoint))
                                 /\ Truthy(OptTrim(cfg.azure_deployment))
    [] OTHER                  -> FALSE

\* Mutant: any scheme is accepted.
StartsWithAnyScheme(s) == s # <<>> /\ Head(s) \in {"https://", "http://"}

\* startsWith('https://'): the scheme is one symbol of the endpoint string
StartsWithHttps(s) == s # <<>> /\ Head(s) = "https://"

\* What a caller may pass as model: nothing, the empty string, a name.
ModelValues == {Absent, Str(<<>>), Str(<<"m">>)}

\* model || d
OrDefault(v, d) == IF Truthy(v) THEN v ELSE Str(<<d>>)

\* The model field of the body streamAI serializes; JSON.stringify drops a
\* field whose value is undefined.  Gemini takes the model in the URL.
StreamBodyModel(provider, model) ==
  CASE provider = "azure"     -> IF Truthy(model) THEN model ELSE Absent
    [] provider = "openai"    -> OrDefault(model, "gpt-4o-mini")
    [] provider = "anthropic" -> OrDefault(model, "claude-3-5-sonnet-20241022")
    [] provider = "google"    -> Absent
    [] OTHER                  -> OrDefault(model, "deepseek-chat")

\* The model field of the body callAI serializes.
CallBodyModel(provider, model) ==
  CASE provider = "azure"     -> IF Truthy(model) THEN model ELSE Absent
    [] provider = "openai"    -> OrDefault(model, "gpt-4o-mini")
    [] provider = "anthropic" -> OrDefault(model, "claude-3-5-sonnet-20241022")
    [] provider = "google"    -> Absent
    [] OTHER                  -> OrDefault(model, "deepseek-chat")

\* The credential switch of callAI: "none", or the error it throws before fetch.
CallConfigError(provider, cfg) ==
  LET azureKey        == OrEmpty(cfg.azure_api_key)
      azureEndpoint   == Trim(OrEmpty(cfg.azure_endpoint))
      azureDeployment == Trim(OrEmpty(cfg.azure_deployment))
  IN  CASE provider = "azure" ->
             IF azureEndpoint = <<>> \/ azureKey = <<>> \/ azureDeployment = <<>>
             THEN "incomplete"
             ELSE IF ~StartsWithHttps(azureEndpoint) THEN "not-https" ELSE "none"
        [] provider = "openai" ->
             IF OrEmpty(cfg.openai_key) = <<>> THEN "missing-key" ELSE "none"
        [] provider = "anthropic" ->
             IF OrEmpty(cfg.anthropic_key) = <<>> THEN "missing-key" ELSE "none"
        [] provider = "google" ->
             IF OrEmpty(cfg.google_key) = <<>> THEN "missing-key" ELSE "none"
        [] OTHER ->
             IF OrEmpty(cfg.deepseek_key) = <<>> THEN "missing-key" ELSE "none"

\* Mutant: the Gemini key, which travels in the URL, is not checked.
StreamConfigErrorGoogleUnchecked(provider, cfg) ==
  LET azureKey        == OrEmpty(cfg.azure_api_key)
      azureEndpoint   == Trim(OrEmpty(cfg.azure_endpoint))
      azureDeployment == Trim(OrEmpty(cfg.azure_deployment))
  IN  CASE provider = "azure" ->
             IF azureEndpoint = <<>> \/ azureKey = <<>> \/ azureDeployment = <<>>
             THEN "incomplete"
             ELSE IF ~StartsWithHttps(azureEndpoint) THEN "not-https" ELSE "none"
        [] provider = "openai" ->
             IF OrEmpty(cfg.openai_key) = <<>> THEN "missing-key" ELSE "none"
        [] provider = "anthropic" ->
             IF OrEmpty(cfg.anthropic_key) = <<>> THEN "missing-key" ELSE "none"
        [] provider = "google" -> "none"
        [] OTHER ->
             IF OrEmpty(cfg.deepseek_key) = <<>> THEN "missing-key" ELSE "none"

\* The credential switch of streamAI: "none", or the error it throws before fetch.
StreamConfigError(provider, cfg) ==
  LET azureKey        == OrEmpty(cfg.azure_api_key)
      azureEndpoint   == Trim(OrEmpty(cfg.azure_endpoint))
      azureDeployment == Trim(OrEmpty(cfg.azure_deployment))
  IN  CASE provider = "azure" ->
             IF azureEndpoint = <<>> \/ azureKey = <<>> \/ azureDeployment = <<>>
             THEN "incomplete"
             ELSE IF ~StartsWithHttps(azureEndpoint) THEN "not-https" ELSE "none"
        [] provider = "openai" ->
             IF OrEmpty(cfg.openai_key) = <<>> THEN "missing-key" ELSE "none"
        [] provider = "anthropic" ->
             IF OrEmpty(cfg.anthropic_key) = <<>> THEN "missing-key" ELSE "none"
        [] provider = "google" ->
             IF OrEmpty(cfg.google_key) = <<>> THEN "missing-key" ELSE "none"
        [] OTHER ->
             IF OrEmpty(cfg.deepseek_key) = <<>> THEN "missing-key" ELSE "none"

\* Values a stored key may have: absent, empty, blank, set.
KeyValues == {Absent, Str(<<>>), Str(<<" ">>), Str(<<"k">>)}

EndpointValues ==
  {Absent, Str(<<" ">>), Str(<<"http://", "h">>), Str(<<" ", "http://", "h">>),
   Str(<<"https://", "h">>)}

NoCfg ==
  [openai_key |-> Absent, anthropic_key |-> Absent, google_key |-> Absent,
   deepseek_key |-> Absent, azure_api_key |-> Absent, azure_endpoint |-> Absent,
   azure_deployment |-> Absent]

\* The stored settings that matter to one provider, the others left absent.
CfgsFor(provider) ==
  CASE provider = "openai"    -> {[NoCfg EXCEPT !.openai_key = k] : k \in KeyValues}
    [] provider = "anthropic" -> {[NoCfg EXCEPT !.anthropic_key = k] : k \in KeyValues}
    [] provider = "google"    -> {[NoCfg EXCEPT !.google_key = k] : k \in KeyValues}
    [] provider = "deepseek"  -> {[NoCfg EXCEPT !.deepseek_key = k] : k \in KeyValues}
    [] OTHER ->
         {[NoCfg EXCEPT !.azure_api_key = k, !.azure_endpoint = e,
                        !.azure_deployment = d] :
            k \in KeyValues, e \in EndpointValues, d \in KeyValues}

\* Settings in which every field the provider needs is set.
Configured(provider) ==
  IF provider = "azure"
  THEN [NoCfg EXCEPT !.azure_api_key = Str(<<"k">>),
                     !.azure_endpoint = Str(<<"https://", "h">>),
                     !.azure_deployment = Str(<<"k">>)]
  ELSE CHOOSE c \in CfgsFor(provider) :
         validateProvider(provider, c) /\ StreamConfigError(provider, c) = "none"

\* The provider selected and the settings stored when a handler reads them:
\* accepted by both checks, rejected by both, blank (the side panel rejects it,
\* the adapter would not), and plain http (the side panel accepts it, the
\* adapter does not).
SessionSettings ==
  {[provider |-> "openai", cfg |-> [NoCfg EXCEPT !.openai_key = Str(<<"k">>)]],
   [provider |-> "openai", cfg |-> NoCfg],
   [provider |-> "openai", cfg |-> [NoCfg EXCEPT !.openai_key = Str(<<" ">>)]],
   [provider |-> "azure",
    cfg |-> [NoCfg EXCEPT !.azure_api_key = Str(<<"k">>),
                          !.azure_endpoint = Str(<<"http://", "h">>),
                          !.azure_deployment = Str(<<"k">>)]]}

\* What the input field may hold when send() reads it at time t: nothing,
\* blanks, or a padded text that names the time of the call.
InputValues(t) == {<<>>, <<" ">>, <<" ", ToString(t), " ">>}

\* ------------------------------------------------------------------ state

VARIABLES
  now,                  \* Date.now()
  lastRequestTime,      \* sidepanel: lastRequestTime
  pending,              \* send() calls suspended on chrome.storage.local.get
  currentPort,          \* sidepanel: currentPort (0 is null)
  isStreaming,          \* sidepanel: isStreaming
  buttonsDisabled,      \* disabled attribute of the five action buttons
  cancelHidden,         \* #cancelStream carries class hidden
  outputText,           \* outputEl.textContent
  statusText,           \* statusEl, by kind of message
  statusTimers,         \* armed setTimeout callbacks that clear the status
  currentOriginalText,  \* sidepanel: currentOriginalText
  responseHistory,      \* sidepanel: responseHistory
  historyIndex,         \* sidepanel: historyIndex
  nPorts,               \* ports opened so far by chrome.runtime.connect
  ports,                \* per port: both ends and the background handler
  evt,                  \* the handler that ran last, and how it ended
  lastPass,             \* time of the last send() that passed the rate check
  lastPassOutcome,      \* what became of that send()
  \* one call of the adapter (SpecStream, SpecConfig)
  stKind,               \* the adapter function called: callAI or streamAI
  stCfg,                \* its argument cfg
  stProvider,           \* streamAI: provider
  stModel,              \* its argument model
  reqModel,             \* the model field of the JSON body given to fetch
  resp,                 \* the response fetch resolved with
  errorMsg,             \* the message of the API error thrown, else <<>>
  stError,              \* the error the call threw, "none" while it has not
  stPc,                 \* where the call stands
  body,                 \* the response body, as the provider sends it
  wire,                 \* response text the transport has not delivered yet
  buffer,               \* streamAI: buffer
  full,                 \* streamAI: full
  deltas,               \* the texts passed to onDelta, in order
  result                \* the text the call returned

vars ==
  <<now, lastRequestTime, pending, currentPort, isStreaming, buttonsDisabled,
    cancelHidden, outputText, statusText, statusTimers, currentOriginalText,
    responseHistory, historyIndex, nPorts, ports, evt, lastPass,
    lastPassOutcome, stKind, stCfg, stProvider, stModel, reqModel, resp,
    errorMsg, stError, stPc, body, wire, buffer, full, deltas, result>>

\* The variables of the request lifecycle, and those of one streamAI call.
sessionVars ==
  <<now, lastRequestTime, pending, currentPort, isStreaming, buttonsDisabled,
    cancelHidden, outputText, statusText, statusTimers, currentOriginalText,
    responseHistory, historyIndex, nPorts, ports, evt, lastPass,
    lastPassOutcome>>

httpVars == <<stModel, reqModel, resp, errorMsg>>

streamVars ==
  <<stKind, stCfg, stProvider, stModel, reqModel, resp, errorMsg, stError,
    stPc, body, wire, buffer, full, deltas, result>>

PortIds == 1 .. MaxPorts

NoPort ==
  [ui |-> "none", raw |-> <<>>, inbox |-> <<>>, cancelled |-> FALSE,
   busyStart |-> FALSE, handled |-> 0, pc |-> "none", full |-> <<>>,
   events |-> <<>>]

\* The side panel as loaded; Date.now() is far past the first rate window.
SessionInit ==
  /\ now = RATE_LIMIT_MS
  /\ lastRequestTime = 0
  /\ pending = <<>>
  /\ currentPort = 0
  /\ isStreaming = FALSE
  /\ buttonsDisabled = FALSE
  /\ cancelHidden = TRUE
  /\ outputText = <<>>
  /\ statusText = ""
  /\ statusTimers = 0
  /\ currentOriginalText = <<>>
  /\ responseHistory = <<>>
  /\ historyIndex = -1
  /\ nPorts = 0
  /\ ports = [p \in PortIds |-> NoPort]
  /\ evt = "init"
  /\ lastPass = 0
  /\ lastPassOutcome = "none"

\* No response: fetch has not resolved.
NoResp == [ok |-> FALSE, status |-> "none", reader |-> FALSE]

\* No streamAI call is followed.
StreamIdle ==
  /\ stKind = "none"
  /\ stCfg = NoCfg
  /\ stProvider = "none"
  /\ stModel = Absent
  /\ reqModel = Absent
  /\ resp = NoResp
  /\ errorMsg = <<>>
  /\ stError = "none"
  /\ stPc = "idle"
  /\ body = <<>>
  /\ wire = <<>>
  /\ buffer = <<>>
  /\ full = <<>>
  /\ deltas = <<>>
  /\ result = <<>>

Init == SessionInit /\ StreamIdle

\* --------------------------------------------------------------- helpers

RemoveAt(s, i) == SubSeq(s, 1, i - 1) \o SubSeq(s, i + 1, Len(s))

Min(a, b) == IF a < b THEN a ELSE b

Max(a, b) == IF a > b THEN a ELSE b

\* Ports whose side-panel end is connected.
OpenPorts == {p \in PortIds : ports[p].ui = "open"}

\* A request is in flight as the side panel sees it.
SessionActive == isStreaming \/ OpenPorts # {}

\* port.disconnect() in the side panel: the port is closed at once and nothing
\* is dispatched to its listeners any more.
Disconnect(ps, p) == [ps EXCEPT ![p].ui = "closed", ![p].inbox = <<>>]

\* port.postMessage(m) in the background: throws, and the handler swallows it,
\* once the side panel has disconnected.
Post(ps, p, m) ==
  IF ps[p].ui = "open" THEN [ps EXCEPT ![p].inbox = Append(@, m)] ELSE ps

Msg(type, text) == [type |-> type, text |-> text]

\* ------------------------------------------------------ side panel: send

\* Mutant: the comparison turned round.
RateLimitedInverted(t, last) == t - last > RATE_LIMIT_MS

RateLimited(t, last) == t - last < RATE_LIMIT_MS

\* Mutant: the clock is set only after the input check.
SendCallClockAfterInputCheck ==
  \E v \in InputValues(now) :
    /\ IF RateLimited(now, lastRequestTime)
       THEN /\ evt' = "send-rate"
            /\ UNCHANGED <<lastRequestTime, pending, lastPass, lastPassOutcome>>
       ELSE /\ lastPass' = now
            /\ IF Trim(v) = <<>>
               THEN /\ evt' = "send-empty"
                    /\ lastPassOutcome' = "empty"
                    /\ UNCHANGED <<lastRequestTime, pending>>
               ELSE /\ evt' = "send-await"
                    /\ lastRequestTime' = now
                    /\ lastPassOutcome' = "pending"
                    /\ pending' = Append(pending,
                         [text |-> Trim(v), at |-> now, prev |-> lastPass,
                          busy |-> SessionActive])
    /\ UNCHANGED <<now, currentPort, isStreaming, buttonsDisabled, cancelHidden,
                   outputText, statusText, statusTimers, currentOriginalText,
                   responseHistory, historyIndex, nPorts, ports>>
    /\ UNCHANGED streamVars

\* send(kind) up to its await on the settings read.  evt tells the toast shown:
\* send-rate "Please wait a moment", send-empty "Please enter some text first".
SendCall ==
  \E v \in InputValues(now) :
    /\ IF RateLimited(now, lastRequestTime)
       THEN /\ evt' = "send-rate"
            /\ UNCHANGED <<lastRequestTime, pending, lastPass, lastPassOutcome>>
       ELSE /\ lastRequestTime' = now
            /\ lastPass' = now
            /\ IF Trim(v) = <<>>
               THEN /\ evt' = "send-empty"
                    /\ lastPassOutcome' = "empty"
                    /\ pending' = pending
               ELSE /\ evt' = "send-await"
                    /\ lastPassOutcome' = "pending"
                    /\ pending' = Append(pending,
                         [text |-> Trim(v), at |-> now, prev |-> lastPass,
                          busy |-> SessionActive])
    /\ UNCHANGED <<now, currentPort, isStreaming, buttonsDisabled, cancelHidden,
                   outputText, statusText, statusTimers, currentOriginalText,
                   responseHistory, historyIndex, nPorts, ports>>
    /\ UNCHANGED streamVars

\* A click on one of the five action buttons; a disabled button gets no click.
ClickSend == ~buttonsDisabled /\ SendCall

\* handleKeyboardShortcuts, Ctrl/Cmd+Enter.
ShortcutSend == ~isStreaming /\ SendCall

ShortcutIgnored ==
  /\ isStreaming
  /\ evt' = "ignored"
  /\ UNCHANGED <<now, lastRequestTime, pending, currentPort, isStreaming,
                 buttonsDisabled, cancelHidden, outputText, statusText,
                 statusTimers, currentOriginalText, responseHistory,
                 historyIndex, nPorts, ports, lastPass, lastPassOutcome>>
  /\ UNCHANGED streamVars

\* Mutant: the original text is stored before the provider is validated.
SendResumeStoresTextFirst(i) ==
  /\ i \in 1 .. Len(pending)
  /\ pending' = RemoveAt(pending, i)
  /\ currentOriginalText' = pending[i].text
  /\ \E st \in SessionSettings :
       IF ~validateProvider(st.provider, st.cfg)
       THEN /\ evt' = "resume-config"
            /\ lastPassOutcome' =
                 IF pending[i].at = lastPass THEN "config" ELSE lastPassOutcome
            /\ UNCHANGED <<currentPort, isStreaming, buttonsDisabled,
                           cancelHidden, outputText, statusText, nPorts, ports>>
       ELSE /\ nPorts < MaxPorts
            /\ evt' = "resume-connect"
            /\ isStreaming' = TRUE
            /\ statusText' = "preparing"
            /\ outputText' = <<>>
            /\ cancelHidden' = FALSE
            /\ buttonsDisabled' = TRUE
            /\ nPorts' = nPorts + 1
            /\ currentPort' = nPorts + 1
            /\ ports' = [ports EXCEPT ![nPorts + 1] =
                 [NoPort EXCEPT !.ui = "open", !.pc = "start-sent",
                                !.busyStart = pending[i].busy]]
            /\ lastPassOutcome' =
                 IF pending[i].at = lastPass THEN "admitted" ELSE lastPassOutcome
  /\ UNCHANGED <<now, lastRequestTime, statusTimers, responseHistory,
                 historyIndex, lastPass>>
  /\ UNCHANGED streamVars

\* send(kind) from the settings read to its end: validation, UI state, connect,
\* listener registration and the start message.  resume-config is the toast of
\* getValidationError.
SendResume(i) ==
  /\ i \in 1 .. Len(pending)
  /\ pending' = RemoveAt(pending, i)
  /\ \E st \in SessionSettings :
       IF ~validateProvider(st.provider, st.cfg)
       THEN /\ evt' = "resume-config"
            /\ lastPassOutcome' =
                 IF pending[i].at = lastPass THEN "config" ELSE lastPassOutcome
            /\ UNCHANGED <<currentPort, isStreaming, buttonsDisabled,
                           cancelHidden, outputText, statusText,
                           currentOriginalText, nPorts, ports>>
       ELSE /\ nPorts < MaxPorts
            /\ evt' = "resume-connect"
            /\ currentOriginalText' = pending[i].text
            /\ isStreaming' = TRUE
            /\ statusText' = "preparing"
            /\ outputText' = <<>>
            /\ cancelHidden' = FALSE
            /\ buttonsDisabled' = TRUE
            /\ nPorts' = nPorts + 1
            /\ currentPort' = nPorts + 1
            /\ ports' = [ports EXCEPT ![nPorts + 1] =
                 [NoPort EXCEPT !.ui = "open", !.pc = "start-sent",
                                !.busyStart = pending[i].busy]]
            /\ lastPassOutcome' =
                 IF pending[i].at = lastPass THEN "admitted" ELSE lastPassOutcome
  /\ UNCHANGED <<now, lastRequestTime, statusTimers, responseHistory,
                 historyIndex, lastPass>>
  /\ UNCHANGED streamVars

\* --------------------------------------------------- side panel: history

\* Mutant: the newest entry is dropped when the history is full.
addToHistoryDropsNewest(h, text) ==
  LET pushed == Append(h, text)
  IN  IF Len(pushed) > HISTORY_MAX THEN SubSeq(pushed, 1, HISTORY_MAX)
      ELSE pushed

addToHistory(h, text) ==
  LET pushed == Append(h, text)
  IN  IF Len(pushed) > HISTORY_MAX THEN Tail(pushed) ELSE pushed

NavEnabled(dir) ==
  \/ responseHistory = <<>>
  \/ dir = -1 /\ historyIndex > 0
  \/ dir = 1 /\ historyIndex < Len(responseHistory) - 1

\* Mutant: the cursor is moved without being clamped.
navigateHistoryUnclamped(dir) ==
  /\ evt' = IF dir = -1 THEN "nav-prev" ELSE "nav-next"
  /\ IF responseHistory = <<>>
     THEN UNCHANGED <<historyIndex, outputText>>
     ELSE /\ historyIndex' = historyIndex + dir
          /\ outputText' =
               IF historyIndex' + 1 \in DOMAIN responseHistory
               THEN responseHistory[historyIndex' + 1]
               ELSE <<>>
  /\ UNCHANGED <<now, lastRequestTime, pending, currentPort, isStreaming,
                 buttonsDisabled, cancelHidden, statusText, statusTimers,
                 currentOriginalText, responseHistory, nPorts, ports, lastPass,
                 lastPassOutcome>>
  /\ UNCHANGED streamVars

\* navigateHistory(direction); evt tells the direction.
navigateHistory(dir) ==
  /\ evt' = IF dir = -1 THEN "nav-prev" ELSE "nav-next"
  /\ IF responseHistory = <<>>
     THEN UNCHANGED <<historyIndex, outputText>>
     ELSE /\ historyIndex' =
               Max(0, Min(Len(responseHistory) - 1, historyIndex + dir))
          /\ outputText' = responseHistory[historyIndex' + 1]
  /\ UNCHANGED <<now, lastRequestTime, pending, currentPort, isStreaming,
                 buttonsDisabled, cancelHidden, statusText, statusTimers,
                 currentOriginalText, responseHistory, nPorts, ports, lastPass,
                 lastPassOutcome>>
  /\ UNCHANGED streamVars

\* A click on #historyPrev or #historyNext, when the button is enabled.
Navigate(dir) == NavEnabled(dir) /\ navigateHistory(dir)

\* Mutant: the cursor stays where navigation left it.
PushHistoryKeepsCursor ==
  /\ \E k \in 1 .. MaxPushes :
       /\ k = IF responseHistory = <<>> THEN 1
              ELSE responseHistory[Len(responseHistory)][1] + 1
       /\ responseHistory' = addToHistory(responseHistory, <<k>>)
  /\ historyIndex' = Max(0, historyIndex)
  /\ evt' = "push"
  /\ UNCHANGED <<now, lastRequestTime, pending, currentPort, isStreaming,
                 buttonsDisabled, cancelHidden, outputText, statusText,
                 statusTimers, currentOriginalText, nPorts, ports, lastPass,
                 lastPassOutcome>>
  /\ UNCHANGED streamVars

\* addToHistory(text) called with the k-th response, which the symbol k names.
PushHistory ==
  /\ \E k \in 1 .. MaxPushes :
       /\ k = IF responseHistory = <<>> THEN 1
              ELSE responseHistory[Len(responseHistory)][1] + 1
       /\ responseHistory' = addToHistory(responseHistory, <<k>>)
  /\ historyIndex' = Len(responseHistory') - 1
  /\ evt' = "push"
  /\ UNCHANGED <<now, lastRequestTime, pending, currentPort, isStreaming,
                 buttonsDisabled, cancelHidden, outputText, statusText,
                 statusTimers, currentOriginalText, nPorts, ports, lastPass,
                 lastPassOutcome>>
  /\ UNCHANGED streamVars

\* The history functions on their own, called in any order.
HistoryNext ==
  \/ PushHistory
  \/ \E dir \in {-1, 1} : navigateHistory(dir)

SpecHistory == Init /\ [][HistoryNext]_vars

\* Mutant: the error branch keeps the text received so far as a response.
UiMessageErrorKeepsText(p) ==
  /\ ports[p].ui = "open"
  /\ ports[p].inbox # <<>>
  /\ LET msg    == Head(ports[p].inbox)
         popped == [ports EXCEPT ![p].inbox = Tail(@), ![p].handled = @ + 1]
     IN  CASE msg.type = "delta" ->
                /\ evt' = "delta"
                /\ ports' = [popped EXCEPT ![p].raw = @ \o msg.text]
                /\ outputText' = ports[p].raw \o msg.text
                /\ statusText' = "streaming"
                /\ UNCHANGED <<currentPort, isStreaming, buttonsDisabled,
                               cancelHidden, statusTimers, responseHistory,
                               historyIndex>>
           [] msg.type = "done" ->
                LET raw == IF msg.text # <<>> THEN msg.text ELSE ports[p].raw
                    set == [popped EXCEPT ![p].raw = raw]
                IN  /\ outputText' = raw
                    /\ statusText' = "complete"
                    /\ isStreaming' = FALSE
                    /\ cancelHidden' = TRUE
                    /\ buttonsDisabled' = FALSE
                    /\ responseHistory' = addToHistory(responseHistory, raw)
                    /\ historyIndex' = Len(responseHistory') - 1
                    /\ IF currentPort = 0
                       THEN \* currentPort.disconnect() on null throws
                            /\ evt' = "done-threw"
                            /\ ports' = set
                            /\ UNCHANGED <<currentPort, statusTimers>>
                       ELSE /\ evt' = "done"
                            /\ ports' = Disconnect(set, currentPort)
                            /\ currentPort' = 0
                            /\ statusTimers' = statusTimers + 1
           [] OTHER ->
                /\ evt' = "error"
                /\ statusText' = "error"
                /\ isStreaming' = FALSE
                /\ cancelHidden' = TRUE
                /\ buttonsDisabled' = FALSE
                /\ ports' = IF currentPort = 0 THEN popped
                            ELSE Disconnect(popped, currentPort)
                /\ currentPort' = 0
                /\ responseHistory' =
                     addToHistory(responseHistory, ports[p].raw)
                /\ historyIndex' = Len(responseHistory') - 1
                /\ UNCHANGED <<outputText, statusTimers>>
  /\ UNCHANGED <<now, lastRequestTime, pending, currentOriginalText, nPorts,
                 lastPass, lastPassOutcome>>
  /\ UNCHANGED streamVars

\* Mutant: the error branch leaves the streaming flag set.
UiMessageErrorKeepsStreaming(p) ==
  /\ ports[p].ui = "open"
  /\ ports[p].inbox # <<>>
  /\ LET msg    == Head(ports[p].inbox)
         popped == [ports EXCEPT ![p].inbox = Tail(@), ![p].handled = @ + 1]
     IN  CASE msg.type = "delta" ->
                /\ evt' = "delta"
                /\ ports' = [popped EXCEPT ![p].raw = @ \o msg.text]
                /\ outputText' = ports[p].raw \o msg.text
                /\ statusText' = "streaming"
                /\ UNCHANGED <<currentPort, isStreaming, buttonsDisabled,
                               cancelHidden, statusTimers, responseHistory,
                               historyIndex>>
           [] msg.type = "done" ->
                LET raw == IF msg.text # <<>> THEN msg.text ELSE ports[p].raw
                    set == [popped EXCEPT ![p].raw = raw]
                IN  /\ outputText' = raw
                    /\ statusText' = "complete"
                    /\ isStreaming' = FALSE
                    /\ cancelHidden' = TRUE
                    /\ buttonsDisabled' = FALSE
                    /\ responseHistory' = addToHistory(responseHistory, raw)
                    /\ historyIndex' = Len(responseHistory') - 1
                    /\ IF currentPort = 0
                       THEN \* currentPort.disconnect() on null throws
                            /\ evt' = "done-threw"
                            /\ ports' = set
                            /\ UNCHANGED <<currentPort, statusTimers>>
                       ELSE /\ evt' = "done"
                            /\ ports' = Disconnect(set, currentPort)
                            /\ currentPort' = 0
                            /\ statusTimers' = statusTimers + 1
           [] OTHER ->
                /\ evt' = "error"
                /\ statusText' = "error"
                /\ isStreaming' = isStreaming
                /\ cancelHidden' = TRUE
                /\ buttonsDisabled' = FALSE
                /\ ports' = IF currentPort = 0 THEN popped
                            ELSE Disconnect(popped, currentPort)
                /\ currentPort' = 0
                /\ UNCHANGED <<outputText, statusTimers, responseHistory,
                               historyIndex>>
  /\ UNCHANGED <<now, lastRequestTime, pending, currentOriginalText, nPorts,
                 lastPass, lastPassOutcome>>
  /\ UNCHANGED streamVars

\* Mutant: the done branch appends the reported text to the accumulation.
UiMessageDoneAppends(p) ==
  /\ ports[p].ui = "open"
  /\ ports[p].inbox # <<>>
  /\ LET msg    == Head(ports[p].inbox)
         popped == [ports EXCEPT ![p].inbox = Tail(@), ![p].handled = @ + 1]
     IN  CASE msg.type = "delta" ->
                /\ evt' = "delta"
                /\ ports' = [popped EXCEPT ![p].raw = @ \o msg.text]
                /\ outputText' = ports[p].raw \o msg.text
                /\ statusText' = "streaming"
                /\ UNCHANGED <<currentPort, isStreaming, buttonsDisabled,
                               cancelHidden, statusTimers, responseHistory,
                               historyIndex>>
           [] msg.type = "done" ->
                LET raw == ports[p].raw \o msg.text
                    set == [popped EXCEPT ![p].raw = raw]
                IN  /\ outputText' = raw
                    /\ statusText' = "complete"
                    /\ isStreaming' = FALSE
                    /\ cancelHidden' = TRUE
                    /\ buttonsDisabled' = FALSE
                    /\ responseHistory' = addToHistory(responseHistory, raw)
                    /\ historyIndex' = Len(responseHistory') - 1
                    /\ IF currentPort = 0
                       THEN \* currentPort.disconnect() on null throws
                            /\ evt' = "done-threw"
                            /\ ports' = set
                            /\ UNCHANGED <<currentPort, statusTimers>>
                       ELSE /\ evt' = "done"
                            /\ ports' = Disconnect(set, currentPort)
                            /\ currentPort' = 0
                            /\ statusTimers' = statusTimers + 1
           [] OTHER ->
                /\ evt' = "error"
                /\ statusText' = "error"
                /\ isStreaming' = FALSE
                /\ cancelHidden' = TRUE
                /\ buttonsDisabled' = FALSE
                /\ ports' = IF currentPort = 0 THEN popped
                            ELSE Disconnect(popped, currentPort)
                /\ currentPort' = 0
                /\ UNCHANGED <<outputText, statusTimers, responseHistory,
                               historyIndex>>
  /\ UNCHANGED <<now, lastRequestTime, pending, currentOriginalText, nPorts,
                 lastPass, lastPassOutcome>>
  /\ UNCHANGED streamVars

\* Mutant: the done branch pushes the text the output shows when it runs.
UiMessageDonePushesShown(p) ==
  /\ ports[p].ui = "open"
  /\ ports[p].inbox # <<>>
  /\ LET msg    == Head(ports[p].inbox)
         popped == [ports EXCEPT ![p].inbox = Tail(@), ![p].handled = @ + 1]
     IN  CASE msg.type = "delta" ->
                /\ evt' = "delta"
                /\ ports' = [popped EXCEPT ![p].raw = @ \o msg.text]
                /\ outputText' = ports[p].raw \o msg.text
                /\ statusText' = "streaming"
                /\ UNCHANGED <<currentPort, isStreaming, buttonsDisabled,
                               cancelHidden, statusTimers, responseHistory,
                               historyIndex>>
           [] msg.type = "done" ->
                LET raw == IF msg.text # <<>> THEN msg.text ELSE ports[p].raw
                    set == [popped EXCEPT ![p].raw = raw]
                IN  /\ outputText' = raw
                    /\ statusText' = "complete"
                    /\ isStreaming' = FALSE
                    /\ cancelHidden' = TRUE
                    /\ buttonsDisabled' = FALSE
                    /\ responseHistory' =
                         addToHistory(responseHistory, outputText)
                    /\ historyIndex' = Len(responseHistory') - 1
                    /\ IF currentPort = 0
                       THEN \* currentPort.disconnect() on null throws
                            /\ evt' = "done-threw"
                            /\ ports' = set
                            /\ UNCHANGED <<currentPort, statusTimers>>
                       ELSE /\ evt' = "done"
                            /\ ports' = Disconnect(set, currentPort)
                            /\ currentPort' = 0
                            /\ statusTimers' = statusTimers + 1
           [] OTHER ->
                /\ evt' = "error"
                /\ statusText' = "error"
                /\ isStreaming' = FALSE
                /\ cancelHidden' = TRUE
                /\ buttonsDisabled' = FALSE
                /\ ports' = IF currentPort = 0 THEN popped
                            ELSE Disconnect(popped, currentPort)
                /\ currentPort' = 0
                /\ UNCHANGED <<outputText, statusTimers, responseHistory,
                               historyIndex>>
  /\ UNCHANGED <<now, lastRequestTime, pending, currentOriginalText, nPorts,
                 lastPass, lastPassOutcome>>
  /\ UNCHANGED streamVars

\* The onMessage listener send() registered on port p, run on the next message
\* of p.  Its closure variable raw is ports[p].raw; currentPort is the global,
\* whichever port it names.
UiMessage(p) ==
  /\ ports[p].ui = "open"
  /\ ports[p].inbox # <<>>
  /\ LET msg    == Head(ports[p].inbox)
         popped == [ports EXCEPT ![p].inbox = Tail(@), ![p].handled = @ + 1]
     IN  CASE msg.type = "delta" ->
                /\ evt' = "delta"
                /\ ports' = [popped EXCEPT ![p].raw = @ \o msg.text]
                /\ outputText' = ports[p].raw \o msg.text
                /\ statusText' = "streaming"
                /\ UNCHANGED <<currentPort, isStreaming, buttonsDisabled,
                               cancelHidden, statusTimers, responseHistory,
                               historyIndex>>
           [] msg.type = "done" ->
                LET raw == IF msg.text # <<>> THEN msg.text ELSE ports[p].raw
                    set == [popped EXCEPT ![p].raw = raw]
                IN  /\ outputText' = raw
                    /\ statusText' = "complete"
                    /\ isStreaming' = FALSE
                    /\ cancelHidden' = TRUE
                    /\ buttonsDisabled' = FALSE
                    /\ responseHistory' = addToHistory(responseHistory, raw)
                    /\ historyIndex' = Len(responseHistory') - 1
                    /\ IF currentPort = 0
                       THEN \* currentPort.disconnect() on null throws
                            /\ evt' = "done-threw"
                            /\ ports' = set
                            /\ UNCHANGED <<currentPort, statusTimers>>
                       ELSE /\ evt' = "done"
                            /\ ports' = Disconnect(set, currentPort)
                            /\ currentPort' = 0
                            /\ statusTimers' = statusTimers + 1
           [] OTHER ->
                /\ evt' = "error"
                /\ statusText' = "error"
                /\ isStreaming' = FALSE
                /\ cancelHidden' = TRUE
                /\ buttonsDisabled' = FALSE
                /\ ports' = IF currentPort = 0 THEN popped
                            ELSE Disconnect(popped, currentPort)
                /\ currentPort' = 0
                /\ UNCHANGED <<outputText, statusTimers, responseHistory,
                               historyIndex>>
  /\ UNCHANGED <<now, lastRequestTime, pending, currentOriginalText, nPorts,
                 lastPass, lastPassOutcome>>
  /\ UNCHANGED streamVars

\* The timer the done branch arms; its 3000 ms delay is not modelled.
StatusTimer ==
  /\ statusTimers > 0
  /\ statusTimers' = statusTimers - 1
  /\ statusText' = ""
  /\ evt' = "env"
  /\ UNCHANGED <<now, lastRequestTime, pending, currentPort, isStreaming,
                 buttonsDisabled, cancelHidden, outputText,
                 currentOriginalText, responseHistory, historyIndex, nPorts,
                 ports, lastPass, lastPassOutcome>>
  /\ UNCHANGED streamVars

\* ---------------------------------------------------- side panel: cancel

\* Mutant: the action buttons are left as they are.
cancelStreamKeepsButtons ==
  /\ evt' = "cancel"
  /\ ports' = IF currentPort = 0 THEN ports
              ELSE [Disconnect(ports, currentPort)
                      EXCEPT ![currentPort].cancelled = TRUE]
  /\ currentPort' = 0
  /\ isStreaming' = FALSE
  /\ statusText' = "cancelled"
  /\ cancelHidden' = TRUE
  /\ buttonsDisabled' = buttonsDisabled
  /\ UNCHANGED <<now, lastRequestTime, pending, outputText, statusTimers,
                 currentOriginalText, responseHistory, historyIndex, nPorts,
                 lastPass, lastPassOutcome>>
  /\ UNCHANGED streamVars

\* Mutant: the port reference is dropped but the port is not disconnected.
cancelStreamKeepsPort ==
  /\ evt' = "cancel"
  /\ ports' = IF currentPort = 0 THEN ports
              ELSE [ports EXCEPT ![currentPort].cancelled = TRUE]
  /\ currentPort' = 0
  /\ isStreaming' = FALSE
  /\ statusText' = "cancelled"
  /\ cancelHidden' = TRUE
  /\ buttonsDisabled' = FALSE
  /\ UNCHANGED <<now, lastRequestTime, pending, outputText, statusTimers,
                 currentOriginalText, responseHistory, historyIndex, nPorts,
                 lastPass, lastPassOutcome>>
  /\ UNCHANGED streamVars

cancelStream ==
  /\ evt' = "cancel"
  /\ ports' = IF currentPort = 0 THEN ports
              ELSE [Disconnect(ports, currentPort)
                      EXCEPT ![currentPort].cancelled = TRUE]
  /\ currentPort' = 0
  /\ isStreaming' = FALSE
  /\ statusText' = "cancelled"
  /\ cancelHidden' = TRUE
  /\ buttonsDisabled' = FALSE
  /\ UNCHANGED <<now, lastRequestTime, pending, outputText, statusTimers,
                 currentOriginalText, responseHistory, historyIndex, nPorts,
                 lastPass, lastPassOutcome>>
  /\ UNCHANGED streamVars

\* A click on #cancelStream, which is shown only while a request runs.
CancelClick == ~cancelHidden /\ cancelStream

\* handleKeyboardShortcuts, Escape.
EscapeKey == isStreaming /\ cancelStream

\* ------------------------------------------ background: the port handler

UiUnchanged ==
  UNCHANGED <<stModel, reqModel, resp, errorMsg,
              stKind, stCfg, stProvider, stError, stPc, body, wire, buffer,
              full, deltas, result, now, lastRequestTime, pending, currentPort, isStreaming,
              buttonsDisabled, cancelHidden, outputText, statusText,
              statusTimers, currentOriginalText, responseHistory,
              historyIndex, nPorts, lastPass, lastPassOutcome>>

\* The background emits event e on port p: it is recorded, and posted.
Emit(ps, p, m) == Post([ps EXCEPT ![p].events = Append(@, m.type)], p, m)

\* The start message arrives: the handler runs to its await on the settings.
BgStart(p) ==
  /\ ports[p].pc = "start-sent"
  /\ ports' = [ports EXCEPT ![p].pc = "cfg"]
  /\ evt' = "env"
  /\ UiUnchanged

\* The settings are read and streamAI runs to its await on fetch, or throws
\* on the credential check.
BgCfgLoaded(p) ==
  /\ ports[p].pc = "cfg"
  /\ \E st \in SessionSettings :
       ports' = IF StreamConfigError(st.provider, st.cfg) = "none"
                THEN [ports EXCEPT ![p].pc = "fetch"]
                ELSE Emit([ports EXCEPT ![p].pc = "failed"], p,
                          Msg("error", <<>>))
  /\ evt' = "env"
  /\ UiUnchanged

\* The settings read rejects: the await is outside the handler's try, so the
\* handler ends with an unhandled rejection and nothing is posted.
BgCfgFailed(p) ==
  /\ ports[p].pc = "cfg"
  /\ ports' = [ports EXCEPT ![p].pc = "dead"]
  /\ evt' = "env"
  /\ UiUnchanged

ResponseKinds == {"stream", "http-error", "no-reader-empty", "no-reader-text"}

\* fetch settles: a readable stream, a failure (non-2xx status or a rejected
\* fetch), or a successful response with no body reader.
BgResponse(p) ==
  /\ ports[p].pc = "fetch"
  /\ \E kind \in ResponseKinds :
       ports' =
         CASE kind = "stream" -> [ports EXCEPT ![p].pc = "reading"]
           [] kind = "http-error" ->
                Emit([ports EXCEPT ![p].pc = "failed"], p, Msg("error", <<>>))
           [] kind = "no-reader-empty" ->
                \* onDelta('') posts nothing
                Emit([ports EXCEPT ![p].pc = "finished"], p, Msg("done", <<>>))
           [] OTHER ->
                Emit(Emit([ports EXCEPT ![p].pc = "finished", ![p].full = <<p>>],
                          p, Msg("delta", <<p>>)),
                     p, Msg("done", <<p>>))
  /\ evt' = "env"
  /\ UiUnchanged

\* One read whose records yield a text fragment: full += t; onDelta(t).
BgDelta(p) ==
  /\ ports[p].pc = "reading"
  /\ Len(ports[p].full) < MaxDeltas
  /\ ports' = Emit([ports EXCEPT ![p].full = Append(@, p)], p,
                   Msg("delta", <<p>>))
  /\ evt' = "env"
  /\ UiUnchanged

\* Mutant: done is posted inside the outer try with no guard of its own, so a
\* disconnected port makes the catch clause post error as well.
BgCloseUnguardedDone(p) ==
  /\ ports[p].pc = "reading"
  /\ ports' =
       IF ports[p].ui = "open"
       THEN Emit([ports EXCEPT ![p].pc = "finished"], p,
                 Msg("done", ports[p].full))
       ELSE Emit(Emit([ports EXCEPT ![p].pc = "failed"], p,
                      Msg("done", ports[p].full)),
                 p, Msg("error", <<>>))
  /\ evt' = "env"
  /\ UiUnchanged

\* The read that reports done: streamAI returns full, the handler posts done.
BgClose(p) ==
  /\ ports[p].pc = "reading"
  /\ ports' = Emit([ports EXCEPT ![p].pc = "finished"], p,
                   Msg("done", ports[p].full))
  /\ evt' = "env"
  /\ UiUnchanged

\* A read rejects: streamAI throws, the handler posts error.
BgReadError(p) ==
  /\ ports[p].pc = "reading"
  /\ ports' = Emit([ports EXCEPT ![p].pc = "failed"], p, Msg("error", <<>>))
  /\ evt' = "env"
  /\ UiUnchanged

\* ------------------------------------------------------------- the clock

TickSteps == {RATE_LIMIT_MS - 1, RATE_LIMIT_MS}

Tick ==
  /\ \E d \in TickSteps : now + d <= MaxNow /\ now' = now + d
  /\ evt' = "env"
  /\ UNCHANGED <<lastRequestTime, pending, currentPort, isStreaming,
                 buttonsDisabled, cancelHidden, outputText, statusText,
                 statusTimers, currentOriginalText, responseHistory,
                 historyIndex, nPorts, ports, lastPass, lastPassOutcome>>
  /\ UNCHANGED streamVars

\* ------------------------------------------------------- specification

Next ==
  \/ ClickSend
  \/ ShortcutSend
  \/ ShortcutIgnored
  \/ \E i \in 1 .. MaxPorts : SendResume(i)
  \/ \E dir \in {-1, 1} : Navigate(dir)
  \/ \E p \in PortIds : UiMessage(p)
  \/ StatusTimer
  \/ CancelClick
  \/ EscapeKey
  \/ \E p \in PortIds : BgStart(p)
  \/ \E p \in PortIds : BgCfgLoaded(p)
  \/ \E p \in PortIds : BgCfgFailed(p)
  \/ \E p \in PortIds : BgResponse(p)
  \/ \E p \in PortIds : BgDelta(p)
  \/ \E p \in PortIds : BgClose(p)
  \/ \E p \in PortIds : BgReadError(p)
  \/ Tick

Spec == Init /\ [][Next]_vars

\* What runs without the user: the side panel's settings read resolves and
\* its listener handles each message posted to an open port; in the
\* background the start message is delivered, the settings read settles, the
\* fetch settles, and the response stream closes or fails.
Fairness ==
  /\ WF_vars(\E i \in 1 .. MaxPorts : SendResume(i))
  /\ \A p \in PortIds :
       /\ WF_vars(UiMessage(p))
       /\ WF_vars(BgStart(p))
       /\ WF_vars(BgCfgLoaded(p) \/ BgCfgFailed(p))
       /\ WF_vars(BgResponse(p))
       /\ WF_vars(BgClose(p) \/ BgReadError(p))

SpecLive == Init /\ [][Next]_vars /\ Fairness

\* The responses of two requests completed earlier in the session.
EarlierResponses == << <<8>>, <<9>> >>

\* The side panel at rest after those two requests: the history holds their
\* responses, the cursor is on the newer one, which the output shows, and the
\* status line has been cleared by its timer.
InitNav ==
  /\ now = RATE_LIMIT_MS
  /\ lastRequestTime = 0
  /\ pending = <<>>
  /\ currentPort = 0
  /\ isStreaming = FALSE
  /\ buttonsDisabled = FALSE
  /\ cancelHidden = TRUE
  /\ outputText = EarlierResponses[Len(EarlierResponses)]
  /\ statusText = ""
  /\ statusTimers = 0
  /\ currentOriginalText = <<>>
  /\ responseHistory = EarlierResponses
  /\ historyIndex = Len(EarlierResponses) - 1
  /\ nPorts = 0
  /\ ports = [p \in PortIds |-> NoPort]
  /\ evt = "init"
  /\ lastPass = 0
  /\ lastPassOutcome = "none"
  /\ StreamIdle

SpecNav == InitNav /\ [][Next]_vars

\* The program, with cancelStream() also called as a function in any state,
\* whatever its two callers would allow.
CancelNext ==
  \/ Next
  \/ cancelStream

SpecCancel == Init /\ [][CancelNext]_vars

\* ============================================================== streamAI

\* The response text is a sequence of symbols: "\n", "\r", " ", the two
\* halves "da" "ta:" of the record prefix, the two halves "[DO" "NE]" of the
\* sentinel, and JSON text: "{" body "}" is an object whose body symbol names
\* the event it carries, "null" is valid JSON that is no object, anything
\* else does not parse.

NoEvent ==
  [content |-> <<>>, deltaText |-> <<>>, blockText |-> <<>>, parts |-> <<>>]

\* The events the sample bodies carry.  content is choices[0].delta.content,
\* deltaText is delta.text, blockText is content_block.text, parts the texts
\* of candidates[0].content.parts (<<>> for a part without text); a field
\* that is missing reads as the empty text.
EventOf(b) ==
  CASE b = "O:a"  -> [NoEvent EXCEPT !.content = <<"a">>]
    [] b = "O:b"  -> [NoEvent EXCEPT !.content = <<"b">>]
    [] b = "A:a"  -> [NoEvent EXCEPT !.deltaText = <<"a">>]
    [] b = "A:cb" -> [NoEvent EXCEPT !.blockText = <<"b">>]
    [] b = "G:ab" -> [NoEvent EXCEPT !.parts = << <<"a">>, <<"b">> >>]
    [] b = "G:_b" -> [NoEvent EXCEPT !.parts = << <<>>, <<"b">> >>]
    [] OTHER         -> NoEvent

Bodies == {"O:a", "O:b", "A:a", "A:cb", "G:ab", "G:_b", "role"}

\* Mutant: an object that is not closed parses.
JsonParseLenient(dataStr) ==
  IF Len(dataStr) >= 2 /\ dataStr[1] = "{" /\ dataStr[2] \in Bodies
  THEN [ok |-> TRUE, evt |-> EventOf(dataStr[2])]
  ELSE IF dataStr = <<"null">>
       THEN [ok |-> TRUE, evt |-> NoEvent]
       ELSE [ok |-> FALSE, evt |-> NoEvent]

\* JSON.parse(dataStr): [ok |-> FALSE] stands for the SyntaxError.
JsonParse(dataStr) ==
  IF Len(dataStr) = 3 /\ dataStr[1] = "{" /\ dataStr[3] = "}"
     /\ dataStr[2] \in Bodies
  THEN [ok |-> TRUE, evt |-> EventOf(dataStr[2])]
  ELSE IF dataStr = <<"null">>
       THEN [ok |-> TRUE, evt |-> NoEvent]
       ELSE [ok |-> FALSE, evt |-> NoEvent]

RECURSIVE Flatten(_)
\* The concatenation of a sequence of texts, join('').
Flatten(ts) == IF ts = <<>> THEN <<>> ELSE Head(ts) \o Flatten(Tail(ts))

\* a || b on strings
Or(a, b) == IF a # <<>> THEN a ELSE b

\* The text streamAI takes from one parsed event, by provider.
ExtractDelta(prov, e) ==
  IF prov = "anthropic" THEN Or(e.deltaText, e.blockText)
  ELSE IF prov = "google"
       THEN Flatten(SelectSeq(e.parts, LAMBDA t : t # <<>>))
       ELSE e.content

\* trimmed.startsWith('data:')
StartsWithData(s) == Len(s) >= 2 /\ s[1] = "da" /\ s[2] = "ta:"

\* The text one line of the stream yields; <<>> when it yields none.
LineDelta(prov, line) ==
  LET trimmed == Trim(line)
      dataStr == Trim(SubSeq(trimmed, 3, Len(trimmed)))
      parsed  == JsonParse(dataStr)
  IN  IF trimmed = <<>> \/ ~StartsWithData(trimmed) THEN <<>>
      ELSE IF dataStr = <<"[DO", "NE]">> THEN <<>>
      ELSE IF parsed.ok THEN ExtractDelta(prov, parsed.evt)
      ELSE <<>>

RECURSIVE SplitFrom(_, _, _)
\* buffer.split(/\r?\n/) as a scan: the parts closed so far, the part being read.
SplitFrom(s, closed, cur) ==
  IF s = <<>> THEN Append(closed, cur)
  ELSE IF Head(s) = "\n"
       THEN SplitFrom(Tail(s),
              Append(closed,
                     IF cur # <<>> /\ cur[Len(cur)] = "\r"
                     THEN SubSeq(cur, 1, Len(cur) - 1)
                     ELSE cur),
              <<>>)
       ELSE SplitFrom(Tail(s), closed, Append(cur, Head(s)))

Split(s) == SplitFrom(s, <<>>, <<>>)

RECURSIVE LineDeltasStopAtDone(_, _)
\* Mutant: the lines after a [DONE] record are dropped.
LineDeltasStopAtDone(prov, lines) ==
  IF lines = <<>> THEN <<>>
  ELSE IF Trim(Head(lines)) = <<"da", "ta:", " ", "[DO", "NE]">> THEN <<>>
  ELSE LET t == LineDelta(prov, Head(lines))
       IN  (IF t # <<>> THEN <<t>> ELSE <<>>)
             \o LineDeltasStopAtDone(prov, Tail(lines))

RECURSIVE LineDeltas(_, _)
\* The non-empty texts the lines yield, in order: one onDelta call each.
LineDeltas(prov, lines) ==
  IF lines = <<>> THEN <<>>
  ELSE LET t == LineDelta(prov, Head(lines))
       IN  (IF t # <<>> THEN <<t>> ELSE <<>>) \o LineDeltas(prov, Tail(lines))

SessionQuiet == UNCHANGED sessionVars

\* fetch resolves with a 2xx response that has a body reader.
StreamOpen ==
  /\ stPc = "fetch"
  /\ resp.ok
  /\ resp.reader
  /\ stPc' = "reading"
  /\ UNCHANGED <<body, stKind, stCfg, stProvider, stError, wire, buffer, full,
                 deltas, result>>
  /\ UNCHANGED httpVars
  /\ SessionQuiet

\* fetch resolves with a 2xx response without a body reader: the body text
\* (safeText: the empty text when reading it fails) is one delta and the result.
StreamNoReader ==
  /\ stPc = "fetch"
  /\ resp.ok
  /\ ~resp.reader
  /\ stPc' = "returned"
  /\ \E text \in {wire, <<>>} :
       /\ deltas' = Append(deltas, text)
       /\ result' = text
  /\ wire' = <<>>
  /\ UNCHANGED <<body, stKind, stCfg, stProvider, stError, buffer, full>>
  /\ UNCHANGED httpVars
  /\ SessionQuiet

\* Mutant: full is not extended for the texts of the last read.
StreamReadForgetsFull ==
  /\ stPc = "reading"
  /\ \E k \in 1 .. Len(wire) :
       LET parts == Split(buffer \o SubSeq(wire, 1, k))
           found == LineDeltas(stProvider, SubSeq(parts, 1, Len(parts) - 1))
       IN  /\ wire' = SubSeq(wire, k + 1, Len(wire))
           /\ buffer' = parts[Len(parts)]
           /\ full' = IF wire' = <<>> THEN full ELSE full \o Flatten(found)
           /\ deltas' = deltas \o found
  /\ UNCHANGED <<body, stKind, stCfg, stProvider, stError, stPc, result>>
  /\ UNCHANGED httpVars
  /\ SessionQuiet

\* Mutant: the unfinished line of the previous read is not kept.
StreamReadDropsBuffer ==
  /\ stPc = "reading"
  /\ \E k \in 1 .. Len(wire) :
       LET parts == Split(SubSeq(wire, 1, k))
           found == LineDeltas(stProvider, SubSeq(parts, 1, Len(parts) - 1))
       IN  /\ wire' = SubSeq(wire, k + 1, Len(wire))
           /\ buffer' = parts[Len(parts)]
           /\ full' = full \o Flatten(found)
           /\ deltas' = deltas \o found
  /\ UNCHANGED <<body, stKind, stCfg, stProvider, stError, stPc, result>>
  /\ UNCHANGED httpVars
  /\ SessionQuiet

\* One pass of the read loop on a chunk of k symbols: decode, split, keep the
\* last part as the buffer, handle every closed line.
StreamRead ==
  /\ stPc = "reading"
  /\ \E k \in 1 .. Len(wire) :
       LET parts == Split(buffer \o SubSeq(wire, 1, k))
           found == LineDeltas(stProvider, SubSeq(parts, 1, Len(parts) - 1))
       IN  /\ wire' = SubSeq(wire, k + 1, Len(wire))
           /\ buffer' = parts[Len(parts)]
           /\ full' = full \o Flatten(found)
           /\ deltas' = deltas \o found
  /\ UNCHANGED <<body, stKind, stCfg, stProvider, stError, stPc, result>>
  /\ UNCHANGED httpVars
  /\ SessionQuiet

\* The read that reports done: the loop ends and full is returned.
StreamEnd ==
  /\ stPc = "reading"
  /\ wire = <<>>
  /\ stPc' = "returned"
  /\ result' = full
  /\ UNCHANGED <<body, stKind, stCfg, stProvider, stError, wire, buffer, full,
                 deltas>>
  /\ UNCHANGED httpVars
  /\ SessionQuiet

\* A read rejects: streamAI throws with what it has.
StreamReadError ==
  /\ stPc = "reading"
  /\ stPc' = "threw"
  /\ stError' = "read"
  /\ UNCHANGED <<body, stKind, stCfg, stProvider, wire, buffer, full, deltas,
                 result>>
  /\ UNCHANGED httpVars
  /\ SessionQuiet

\* Records a response may carry.
SampleRecords ==
  {<<>>,
   <<"da", "ta:", " ", "{", "O:a", "}">>,
   <<"da", "ta:", "{", "O:b", "}", " ">>,
   <<"da", "ta:", " ", "{", "A:a", "}">>,
   <<"da", "ta:", " ", "{", "A:cb", "}">>,
   <<"da", "ta:", " ", "{", "G:ab", "}">>,
   <<"da", "ta:", " ", "{", "G:_b", "}">>,
   <<"da", "ta:", " ", "{", "role", "}">>,
   <<"da", "ta:", " ", "[DO", "NE]">>,
   <<"da", "ta:", " ", "{", "O:a">>,
   <<"da", "ta:", " ", "null">>,
   <<":", "ping">>}

\* How a record ends on the wire; the last one may not be ended at all.
LineEnds == {<<"\n">>, <<"\r", "\n">>}

RECURSIVE Wires(_)
\* The responses of at most n records.
Wires(n) ==
  IF n = 0 THEN {<<>>}
  ELSE LET shorter == Wires(n - 1)
       IN  shorter \cup
           {r \o e \o w : r \in SampleRecords, e \in LineEnds, w \in shorter}
           \cup {r : r \in SampleRecords}

\* Responses of three records: a record that yields no text between two
\* that do, for each provider's format.
LongWires ==
  {first \o e1 \o middle \o e2 \o last \o e3 :
     first \in {<<"da", "ta:", " ", "{", "O:a", "}">>,
                <<"da", "ta:", " ", "{", "A:a", "}">>},
     middle \in {<<"da", "ta:", " ", "{", "O:a">>,
                 <<"da", "ta:", " ", "[DO", "NE]">>},
     last \in {<<"da", "ta:", "{", "O:b", "}", " ">>,
               <<"da", "ta:", " ", "{", "A:cb", "}">>},
     e1 \in LineEnds, e2 \in {<<"\n">>}, e3 \in {<<"\n">>}}

\* streamAI called with settings its credential switch accepts, at its fetch.
StreamInit ==
  /\ stKind = "stream"
  /\ stProvider \in Providers
  /\ stCfg = Configured(stProvider)
  /\ stModel = Absent
  /\ reqModel = StreamBodyModel(stProvider, stModel)
  /\ resp \in {[ok |-> TRUE, status |-> "200", reader |-> r] : r \in BOOLEAN}
  /\ errorMsg = <<>>
  /\ stError = "none"
  /\ stPc = "fetch"
  /\ body \in Wires(MaxRecords) \cup LongWires
  /\ wire = body
  /\ buffer = <<>>
  /\ full = <<>>
  /\ deltas = <<>>
  /\ result = <<>>

StreamNext ==
  \/ StreamOpen
  \/ StreamNoReader
  \/ StreamRead
  \/ StreamEnd
  \/ StreamReadError

\* A call of streamAI on its own: the side panel stays as constructed.
InitStream == SessionInit /\ StreamInit

SpecStream == InitStream /\ [][StreamNext]_vars

\* ------------------------------------------- the adapters' credential check

\* callAI from its call to its fetch: the credential switch throws, or fetch
\* is invoked.
CallAICheck ==
  /\ stKind = "call"
  /\ stPc = "called"
  /\ stError' = CallConfigError(stProvider, stCfg)
  /\ stPc' = IF stError' = "none" THEN "fetch" ELSE "threw"
  /\ reqModel' = IF stError' = "none" THEN CallBodyModel(stProvider, stModel)
                 ELSE reqModel
  /\ UNCHANGED <<body, stKind, stCfg, stProvider, wire, buffer, full, deltas,
                 result, stModel, resp, errorMsg>>
  /\ SessionQuiet

\* streamAI from its call to its fetch.
StreamAICheck ==
  /\ stKind = "stream"
  /\ stPc = "called"
  /\ stError' = StreamConfigError(stProvider, stCfg)
  /\ stPc' = IF stError' = "none" THEN "fetch" ELSE "threw"
  /\ reqModel' = IF stError' = "none" THEN StreamBodyModel(stProvider, stModel)
                 ELSE reqModel
  /\ UNCHANGED <<body, stKind, stCfg, stProvider, wire, buffer, full, deltas,
                 result, stModel, resp, errorMsg>>
  /\ SessionQuiet

\* An adapter function has just been called, with any provider and any
\* stored settings for it.
ConfigInit ==
  /\ stKind \in {"call", "stream"}
  /\ stProvider \in Providers
  /\ stCfg \in CfgsFor(stProvider)
  /\ stModel \in ModelValues
  /\ reqModel = Absent
  /\ resp = NoResp
  /\ errorMsg = <<>>
  /\ stError = "none"
  /\ stPc = "called"
  /\ body = <<>>
  /\ wire = <<>>
  /\ buffer = <<>>
  /\ full = <<>>
  /\ deltas = <<>>
  /\ result = <<>>

ConfigNext ==
  \/ CallAICheck
  \/ StreamAICheck

InitConfig == SessionInit /\ ConfigInit

SpecConfig == InitConfig /\ [][ConfigNext]_vars

\* ------------------------------------ the adapters after fetch has resolved

\* The objects the sample error bodies carry: errorMessage is error.message,
\* message is message; a field that is missing is Absent.
ErrorOf(b) ==
  CASE b = "E:em"   -> [errorMessage |-> Str(<<"rate limited">>),
                        message |-> Absent]
    [] b = "E:m"    -> [errorMessage |-> Absent,
                        message |-> Str(<<"bad request">>)]
    [] b = "E:em+m" -> [errorMessage |-> Str(<<"rate limited">>),
                        message |-> Str(<<"bad request">>)]
    [] b = "E:e0+m" -> [errorMessage |-> Str(<<>>),
                        message |-> Str(<<"bad request">>)]
    [] OTHER        -> [errorMessage |-> Absent, message |-> Absent]

ErrorNames == {"E:em", "E:m", "E:em+m", "E:e0+m", "E:none"}

\* JSON.parse(err) followed by the reads of errData.error?.message and
\* errData.message: ok is FALSE when either throws (a SyntaxError, or the
\* TypeError of reading a field of null).  JSON.parse skips white space after
\* the value.
ParseError(err) ==
  IF /\ Len(err) >= 3
     /\ err[1] = "{" /\ err[3] = "}" /\ err[2] \in ErrorNames
     /\ \A i \in 4 .. Len(err) : err[i] \in WhiteSpace
  THEN [ok |-> TRUE, data |-> ErrorOf(err[2])]
  ELSE [ok |-> FALSE, data |-> ErrorOf("E:none")]

\* truncate(s, n); "..." stands for the one character U+2026.
truncate(s, n) ==
  IF s = <<>> THEN <<>>
  ELSE IF Len(s) > n THEN SubSeq(s, 1, n) \o <<"...">> ELSE s

\* Mutant: message is preferred to error.message.
HttpErrorMessagePrefersMessage(provider, status, err) ==
  LET head   == <<provider, " API error ", status, ": ">>
      parsed == ParseError(err)
  IN  IF parsed.ok /\ Truthy(parsed.data.message)
      THEN head \o parsed.data.message.s
      ELSE IF parsed.ok /\ Truthy(parsed.data.errorMessage)
      THEN head \o parsed.data.errorMessage.s
      ELSE head \o truncate(err, TRUNCATE_AT)

\* The message of the Error thrown for a response that is not ok.
HttpErrorMessage(provider, status, err) ==
  LET head   == <<provider, " API error ", status, ": ">>
      parsed == ParseError(err)
  IN  IF parsed.ok /\ Truthy(parsed.data.errorMessage)
      THEN head \o parsed.data.errorMessage.s
      ELSE IF parsed.ok /\ Truthy(parsed.data.message)
      THEN head \o parsed.data.message.s
      ELSE head \o truncate(err, TRUNCATE_AT)

\* The objects the sample response bodies of callAI carry: content is
\* choices[0].message.content, blocks the texts of content[], parts the texts
\* of candidates[0].content.parts[] (<<>> for an element without text).
DataOf(b) ==
  CASE b = "D:c"    -> [content |-> <<"c">>, blocks |-> <<>>, parts |-> <<>>]
    [] b = "DA:a"   -> [content |-> <<>>, blocks |-> << <<"a">> >>,
                        parts |-> <<>>]
    [] b = "DA:ab"  -> [content |-> <<>>, blocks |-> << <<"a">>, <<"b">> >>,
                        parts |-> <<>>]
    [] b = "DG:a"   -> [content |-> <<>>, blocks |-> <<>>,
                        parts |-> << <<"a">> >>]
    [] b = "DG:a_b" -> [content |-> <<>>, blocks |-> <<>>,
                        parts |-> << <<"a">>, <<>>, <<"b">> >>]
    [] OTHER        -> [content |-> <<>>, blocks |-> <<>>, parts |-> <<>>]

DataNames == {"D:c", "DA:a", "DA:ab", "DG:a", "DG:a_b", "D:none"}

\* resp.json()
ParseData(text) ==
  LET t == Trim(text)
  IN  IF Len(t) = 3 /\ t[1] = "{" /\ t[3] = "}" /\ t[2] \in DataNames
      THEN [ok |-> TRUE, data |-> DataOf(t[2])]
      ELSE [ok |-> FALSE, data |-> DataOf("D:none")]

RECURSIVE JoinWith(_, _)
\* ts.join(sep)
JoinWith(ts, sep) ==
  IF ts = <<>> THEN <<>>
  ELSE IF Len(ts) = 1 THEN ts[1]
  ELSE ts[1] \o <<sep>> \o JoinWith(Tail(ts), sep)

\* The text callAI returns for a parsed response.
CallNormalize(provider, data) ==
  IF provider \in {"openai", "deepseek", "azure"} THEN data.content
  ELSE IF provider = "anthropic"
  THEN JoinWith(SelectSeq(data.blocks, LAMBDA t : t # <<>>), "\n")
  ELSE IF provider = "google"
  THEN JoinWith(SelectSeq(data.parts, LAMBDA t : t # <<>>), "\n")
  ELSE <<>>

\* streamAI, the response is not ok: the body is read as text (safeText: the
\* empty text when that fails) and the error is thrown.
StreamHttpError ==
  /\ stKind = "stream"
  /\ stPc = "fetch"
  /\ ~resp.ok
  /\ \E err \in {body, <<>>} :
       errorMsg' = HttpErrorMessage(stProvider, resp.status, err)
  /\ stError' = "http"
  /\ stPc' = "threw"
  /\ wire' = <<>>
  /\ UNCHANGED <<body, stKind, stCfg, stProvider, stModel, reqModel, resp,
                 buffer, full, deltas, result>>
  /\ SessionQuiet

\* callAI, the response is not ok.
CallHttpError ==
  /\ stKind = "call"
  /\ stPc = "fetch"
  /\ ~resp.ok
  /\ \E err \in {body, <<>>} :
       errorMsg' = HttpErrorMessage(stProvider, resp.status, err)
  /\ stError' = "http"
  /\ stPc' = "threw"
  /\ wire' = <<>>
  /\ UNCHANGED <<body, stKind, stCfg, stProvider, stModel, reqModel, resp,
                 buffer, full, deltas, result>>
  /\ SessionQuiet

\* callAI, the response is ok: resp.json() and the normalisation to text.
CallReturn ==
  /\ stKind = "call"
  /\ stPc = "fetch"
  /\ resp.ok
  /\ LET parsed == ParseData(body)
     IN  IF parsed.ok
         THEN /\ result' = CallNormalize(stProvider, parsed.data)
              /\ stPc' = "returned"
              /\ stError' = stError
         ELSE /\ result' = result
              /\ stPc' = "threw"
              /\ stError' = "json"
  /\ wire' = <<>>
  /\ UNCHANGED <<body, stKind, stCfg, stProvider, stModel, reqModel, resp,
                 errorMsg, buffer, full, deltas>>
  /\ SessionQuiet

\* Error bodies: JSON with and without the message fields, JSON padded past
\* the cut, null, nothing, and text that is no JSON, around the cut.
RawBody(n) == [i \in 1 .. n |-> "x"]

ErrorBodies ==
  {<<"{", b, "}">> : b \in ErrorNames}
    \cup {<<"{", "E:none", "}">> \o [i \in 1 .. TRUNCATE_AT |-> " "]}
    \cup {<<"null">>, <<>>}
    \cup {RawBody(n) : n \in {1, TRUNCATE_AT - 1, TRUNCATE_AT, TRUNCATE_AT + 1,
                              MaxBodyLen}}

DataBodies == {<<"{", b, "}">> : b \in DataNames} \cup {<<"x">>}

\* An adapter function at the moment its fetch resolves.
HttpInit ==
  /\ stKind \in {"call", "stream"}
  /\ stProvider \in Providers
  /\ stCfg = Configured(stProvider)
  /\ stModel = Absent
  /\ reqModel = IF stKind = "call" THEN CallBodyModel(stProvider, stModel)
                ELSE StreamBodyModel(stProvider, stModel)
  /\ resp \in {[ok |-> FALSE, status |-> s, reader |-> r] :
                 s \in {"429", "500"}, r \in BOOLEAN}
              \cup {[ok |-> TRUE, status |-> "200", reader |-> TRUE]}
  /\ resp.ok => stKind = "call"
  /\ body \in IF resp.ok THEN DataBodies ELSE ErrorBodies
  /\ wire = body
  /\ errorMsg = <<>>
  /\ stError = "none"
  /\ stPc = "fetch"
  /\ buffer = <<>>
  /\ full = <<>>
  /\ deltas = <<>>
  /\ result = <<>>

HttpNext ==
  \/ StreamHttpError
  \/ CallHttpError
  \/ CallReturn

InitHttp == SessionInit /\ HttpInit

SpecHttp == InitHttp /\ [][HttpNext]_vars

\* ================================================================= claims

SendLabels == {"send-rate", "send-empty", "send-await"}

Reading(p) == ports[p].pc = "reading"

\* C1: a start() call made while a request is in flight (isStreaming is true or
\* a stream port is open) is rejected and changes nothing: it never gets as far
\* as the settings read, and no port is ever opened for it.
C1_BusyStartRejected ==
  /\ \A i \in 1 .. Len(pending) : ~pending[i].busy
  /\ \A p \in PortIds : ~ports[p].busyStart

\* C2: single flight: at most one stream port opened by the side panel is
\* connected at any time.
C2_SingleFlight == Cardinality(OpenPorts) <= 1

\* C3: the adapter is never reading two provider response streams at once; in
\* the claim's own scenario, start / cancel / start: the response stream of a
\* cancelled request is not being read while another request's stream is.
C3_OneProviderStream ==
  \A p \in PortIds :
    ports[p].cancelled /\ Reading(p) => \A q \in PortIds \ {p} : ~Reading(q)

\* C4: cancel() tears the transport down: once a request is cancelled the
\* adapter does not start or continue reading its response stream and makes no
\* further delta callback for it, and cancel() leaves the session not
\* streaming with its port released.
C4_CancelStopsAdapter ==
  [][/\ \A p \in PortIds :
          ports[p].cancelled =>
            /\ ports'[p].full = ports[p].full
            /\ Reading(p) => ports'[p].pc = "reading"
            /\ ports'[p].pc = "reading" => Reading(p)
     /\ evt' = "cancel" => ~isStreaming' /\ currentPort' = 0]_vars

\* C5: once a request is cancelled, its listener handles no delta, done or
\* error any more, whatever the provider goes on producing: its accumulated
\* text, the output, the status and the history are not touched by it, and no
\* history entry ever carries its text.
C5_CancelledRequestIsSilent ==
  /\ [](\A p \in PortIds :
          ports[p].cancelled =>
            \A i \in 1 .. Len(responseHistory) :
              \A j \in 1 .. Len(responseHistory[i]) : responseHistory[i][j] # p)
  /\ [][\A p \in PortIds :
          ports[p].cancelled =>
            /\ ports'[p].handled = ports[p].handled
            /\ ports'[p].raw = ports[p].raw
            /\ ports'[p].inbox = <<>>]_vars

\* C5 witness: a request cancelled after a delta had been accumulated, whose
\* provider went on to the end: the done event was emitted and never handled.
C5_Witness ==
  \E p \in PortIds :
    /\ ports[p].cancelled
    /\ ports[p].raw # <<>>
    /\ ports[p].pc = "finished"
    /\ Len(ports[p].events) > ports[p].handled
    /\ responseHistory = <<>>

Terminal == {"done", "error"}

C7_ResultIsConcatenation == stPc = "returned" => result = Flatten(deltas)

\* C7 witness: a call that read its response in several chunks, made two
\* delta callbacks and returned.
C7_Witness ==
  /\ stPc = "returned"
  /\ Len(deltas) = 2
  /\ buffer = <<>>
  /\ stProvider = "google"
  /\ result = <<"a", "b", "b">>

\* C8: a send() call made less than RATE_LIMIT_MS after the previous call that
\* passed the rate check is rejected with the rate-limit toast: nothing is
\* suspended on the settings read, no port is opened, nothing is posted.
C8_RateLimit ==
  [][(evt' \in SendLabels /\ now - lastPass < RATE_LIMIT_MS) =>
       /\ evt' = "send-rate"
       /\ pending' = pending
       /\ nPorts' = nPorts
       /\ ports' = ports]_vars

\* C8 witness: a call 999 ms after an admitted one has just been rejected.
C8_Witness ==
  /\ evt = "send-rate"
  /\ now - lastPass = RATE_LIMIT_MS - 1
  /\ lastPassOutcome = "admitted"

\* C9: the rate-limit clock moves only for a start() that goes on to issue its
\* request: a start() rejected for the rate limit, for empty input or for
\* missing configuration leaves lastRequestTime as it was.
C9_RejectedStartKeepsClock ==
  /\ [][evt' \in {"send-rate", "send-empty"} =>
          lastRequestTime' = lastRequestTime]_vars
  /\ [](lastPassOutcome = "config" => lastRequestTime # lastPass)

\* C10: a send() that passed the rate check and was then rejected, for empty
\* input or for missing configuration, has used the window: a send() called
\* less than RATE_LIMIT_MS after it is rejected with the rate-limit toast.
C10_RejectedStartUsesWindow ==
  [][(/\ evt' \in SendLabels
      /\ lastPassOutcome \in {"empty", "config"}
      /\ now - lastPass < RATE_LIMIT_MS) =>
       /\ evt' = "send-rate"
       /\ pending' = pending
       /\ lastPassOutcome' = lastPassOutcome]_vars

\* C10 witness: a call 999 ms after one rejected for its configuration has
\* just been rejected for the rate limit.
C10_Witness ==
  /\ evt = "send-rate"
  /\ lastPassOutcome = "config"
  /\ now - lastPass = RATE_LIMIT_MS - 1

\* C11: a send() rejected for an input that trims to empty, or for a provider
\* that is not configured, opens no port, posts nothing to the background and
\* leaves the status, the original text, the output, the history and the
\* cursor as they were; so does the part of it that runs before the settings
\* read.
C11_RejectedStartFrame ==
  [][evt' \in {"send-empty", "send-await", "resume-config"} =>
       UNCHANGED <<nPorts, ports, currentPort, isStreaming, statusText,
                   currentOriginalText, outputText, responseHistory,
                   historyIndex>>]_vars

\* C11 witness: a start has just been rejected for its configuration while the
\* output and the history hold an earlier response.
C11_Witness ==
  /\ evt = "resume-config"
  /\ outputText # <<>>
  /\ responseHistory # <<>>
  /\ currentOriginalText # <<>>

\* The fields the provider of the call requires.
RequiredFields ==
  CASE stProvider = "openai"    -> {stCfg.openai_key}
    [] stProvider = "anthropic" -> {stCfg.anthropic_key}
    [] stProvider = "google"    -> {stCfg.google_key}
    [] stProvider = "deepseek"  -> {stCfg.deepseek_key}
    [] OTHER -> {stCfg.azure_api_key, stCfg.azure_endpoint,
                 stCfg.azure_deployment}

ConfigErrors == {"missing-key", "incomplete", "not-https"}

\* C12: for every provider, when a field the provider requires is absent or
\* empty, callAI and streamAI throw a configuration error and never reach
\* their fetch.
C12_MissingCredentialFailsEarly ==
  (stPc # "called" /\ \E v \in RequiredFields : ~v.def \/ v.s = <<>>) =>
    stPc = "threw" /\ stError \in {"missing-key", "incomplete"}

\* C12 witness: streamAI has thrown for a Gemini key stored as the empty string.
C12_Witness ==
  /\ stKind = "stream"
  /\ stProvider = "google"
  /\ stCfg.google_key = Str(<<>>)
  /\ stPc = "threw"
  /\ stError = "missing-key"

\* C13: an Azure call whose key, endpoint and deployment are all non-empty
\* and whose endpoint does not start with https:// throws a configuration
\* error and never reaches fetch, in callAI and in streamAI.  The endpoint is
\* read without the white space around it.
C13_AzureRequiresHttps ==
  (/\ stPc # "called"
   /\ stProvider = "azure"
   /\ \A v \in RequiredFields : v.def /\ v.s # <<>>
   /\ LET endpoint == Trim(stCfg.azure_endpoint.s)
      IN  endpoint = <<>> \/ Head(endpoint) # "https://") =>
    stPc = "threw" /\ stError \in ConfigErrors

\* C13 witness: callAI has thrown for the endpoint http://h with key and
\* deployment set.
C13_Witness ==
  /\ stKind = "call"
  /\ stProvider = "azure"
  /\ stCfg.azure_endpoint = Str(<<"http://", "h">>)
  /\ stCfg.azure_api_key = Str(<<"k">>)
  /\ stCfg.azure_deployment = Str(<<"k">>)
  /\ stPc = "threw"
  /\ stError = "not-https"

\* C14: the history never holds more than 10 entries, and a push onto a full
\* history drops exactly the oldest entry and keeps the others in order, the
\* new entry last.
C14_HistoryCapFifo ==
  /\ [](Len(responseHistory) <= 10)
  /\ [][evt' = "push" =>
          LET newest == responseHistory'[Len(responseHistory')]
          IN  responseHistory' =
                IF Len(responseHistory) < 10
                THEN Append(responseHistory, newest)
                ELSE Append(Tail(responseHistory), newest)]_vars

\* C14 witness: responses #1..#11 have been pushed and the history is #2..#11.
C14_Witness ==
  /\ evt = "push"
  /\ responseHistory = [i \in 1 .. 10 |-> <<i + 1>>]

\* C16: navigateHistory(direction) moves the cursor by direction, clamped to
\* [0, length-1], and shows the entry under it; on an empty history it changes
\* neither the cursor nor the output.
C16_NavigateClamped ==
  [][evt' \in {"nav-prev", "nav-next"} =>
       LET dir  == IF evt' = "nav-prev" THEN -1 ELSE 1
           last == Len(responseHistory) - 1
           to   == historyIndex + dir
       IN  IF responseHistory = <<>>
           THEN UNCHANGED <<historyIndex, outputText>>
           ELSE /\ historyIndex' =
                     IF to < 0 THEN 0 ELSE IF to > last THEN last ELSE to
                /\ outputText' = responseHistory[historyIndex' + 1]
                /\ UNCHANGED responseHistory]_vars

\* C16 witness: a step forward was asked for with a single entry in the
\* history, and the cursor stayed on it.
C16_Witness ==
  /\ evt = "nav-next"
  /\ Len(responseHistory) = 1
  /\ historyIndex = 0
  /\ outputText = <<1>>

\* C17: addToHistory leaves the cursor on the newest entry, wherever it was.
C17_PushResetsCursor ==
  [][evt' = "push" => historyIndex' = Len(responseHistory') - 1]_vars

\* C17 witness: with the cursor on the oldest of ten entries, whose text the
\* output still shows, an eleventh was pushed: the oldest is gone and the
\* cursor is on the newest.
C17_Witness ==
  /\ evt = "push"
  /\ outputText = <<1>>
  /\ responseHistory[1] = <<2>>
  /\ Len(responseHistory) = 10
  /\ historyIndex = 9

\* C15: the history changes only in the done branch of the port listener, and
\* each run of that branch adds exactly one entry, the newest; a rejected
\* start, a delta, an error, cancelStream and navigateHistory leave it alone.
C15_HistoryOnlyOnDone ==
  [][/\ responseHistory' # responseHistory => evt' \in {"done", "done-threw"}
     /\ evt' \in {"done", "done-threw"} =>
          LET newest == responseHistory'[Len(responseHistory')]
          IN  responseHistory' =
                IF Len(responseHistory) < 10
                THEN Append(responseHistory, newest)
                ELSE Append(Tail(responseHistory), newest)]_vars

\* C15 witness: after one request completed, a second one failed with text
\* already received, and the history holds the first response only.
C15_Witness ==
  /\ evt = "error"
  /\ Len(responseHistory) = 1
  /\ \E p \in PortIds :
       /\ ports[p].raw # <<>>
       /\ ports[p].pc = "failed"
       /\ responseHistory[1] # ports[p].raw

\* No request is active as the side panel sees it.
SessionIdle == ~isStreaming /\ currentPort = 0

\* C18: cancelStream() called when no request is active changes nothing, the
\* status included; called twice it leaves what one call leaves.
C18_CancelIdleNoOp ==
  [][(evt' = "cancel" /\ SessionIdle) =>
       UNCHANGED <<statusText, currentPort, isStreaming, buttonsDisabled,
                   cancelHidden, outputText, currentOriginalText,
                   responseHistory, historyIndex, ports, pending>>]_vars

\* What each sample record is to yield, read off the providers' formats:
\* the text of an event in the format of the provider called, nothing for an
\* event in another format, for a record that is no event and for a payload
\* that is not JSON.
RecordText(prov, rec) ==
  LET openaiLike == prov \in {"openai", "deepseek", "azure"}
  IN  CASE rec = <<"da", "ta:", " ", "{", "O:a", "}">> /\ openaiLike -> <<"a">>
        [] rec = <<"da", "ta:", "{", "O:b", "}", " ">> /\ openaiLike -> <<"b">>
        [] rec = <<"da", "ta:", " ", "{", "A:a", "}">> /\ prov = "anthropic"
             -> <<"a">>
        [] rec = <<"da", "ta:", " ", "{", "A:cb", "}">> /\ prov = "anthropic"
             -> <<"b">>
        [] rec = <<"da", "ta:", " ", "{", "G:ab", "}">> /\ prov = "google"
             -> <<"a", "b">>
        [] rec = <<"da", "ta:", " ", "{", "G:_b", "}">> /\ prov = "google"
             -> <<"b">>
        [] OTHER -> <<>>

MalformedRecord == <<"da", "ta:", " ", "{", "O:a">>

DoneRecord == <<"da", "ta:", " ", "[DO", "NE]">>

RECURSIVE RecordsOf(_)
\* The records of a response text that are ended by a line end.
RecordsOf(s) ==
  IF \A i \in DOMAIN s : s[i] # "\n" THEN <<>>
  ELSE LET i    == CHOOSE j \in DOMAIN s :
                     s[j] = "\n" /\ \A k \in 1 .. j - 1 : s[k] # "\n"
           last == IF i > 1 /\ s[i - 1] = "\r" THEN i - 2 ELSE i - 1
       IN  <<SubSeq(s, 1, last)>> \o RecordsOf(SubSeq(s, i + 1, Len(s)))

RECURSIVE TextsOf(_, _)
\* The non-empty texts a sequence of records is to yield, in order.
TextsOf(prov, recs) ==
  IF recs = <<>> THEN <<>>
  ELSE (IF RecordText(prov, Head(recs)) # <<>>
        THEN <<RecordText(prov, Head(recs))>> ELSE <<>>)
         \o TextsOf(prov, Tail(recs))

\* The part of the response body the read loop has been given so far.
Consumed == SubSeq(body, 1, Len(body) - Len(wire))

Contains(recs, rec) == \E i \in DOMAIN recs : recs[i] = rec

\* C19: a record whose payload is not valid JSON yields no delta and no
\* error and does not stop the stream: whenever the read loop has been given
\* such a record, the deltas made so far are those of the valid records
\* given, before it and after it, in order, and no error is raised.
C19_MalformedRecordSkipped ==
  (stPc = "reading" /\ Contains(RecordsOf(Consumed), MalformedRecord)) =>
    /\ deltas = TextsOf(stProvider, RecordsOf(Consumed))
    /\ stError = "none"

\* C19 witness: of three records the second was malformed, and the first and
\* the third have made their deltas.
C19_Witness ==
  /\ stPc = "reading"
  /\ wire = <<>>
  /\ stProvider = "openai"
  /\ RecordsOf(body) = << <<"da", "ta:", " ", "{", "O:a", "}">>,
                          MalformedRecord,
                          <<"da", "ta:", "{", "O:b", "}", " ">> >>
  /\ deltas = << <<"a">>, <<"b">> >>

\* C20: a data: [DONE] record yields no delta and no error and ends nothing:
\* whenever the read loop has been given one, the deltas made so far are those
\* of the other records given, before it and after it, and the call returns
\* only once the whole body has been read.
C20_DoneRecordIsNoOp ==
  /\ (stPc = "reading" /\ Contains(RecordsOf(Consumed), DoneRecord)) =>
       /\ deltas = TextsOf(stProvider, RecordsOf(Consumed))
       /\ stError = "none"
  /\ (stPc = "returned" /\ Contains(RecordsOf(body), DoneRecord)) =>
       wire = <<>>

\* C20 witness: of three records the second was [DONE], and the first and the
\* third have made their deltas before the call returned.
C20_Witness ==
  /\ stPc = "returned"
  /\ stProvider = "anthropic"
  /\ RecordsOf(body) = << <<"da", "ta:", " ", "{", "A:a", "}">>,
                          DoneRecord,
                          <<"da", "ta:", " ", "{", "A:cb", "}">> >>
  /\ deltas = << <<"a">>, <<"b">> >>
  /\ result = <<"a", "b">>

\* C27: for provider azure the JSON body given to fetch has no model field,
\* whatever model the caller passed, in callAI and in streamAI.
C27_AzureBodyHasNoModel ==
  (stProvider = "azure" /\ stPc = "fetch") => ~reqModel.def

\* C30: validateProvider, the check send() makes, and the credential switch of
\* streamAI accept the same settings: streamAI throws for a missing credential
\* exactly when validateProvider returns false.
C30_ChecksAgree ==
  (stKind = "stream" /\ stPc # "called") =>
    (validateProvider(stProvider, stCfg)
       <=> stError \notin {"missing-key", "incomplete"})

\* The sample error bodies whose JSON carries a message.
MessageOf(b) ==
  CASE b = <<"{", "E:em", "}">>   -> <<"rate limited">>
    [] b = <<"{", "E:em+m", "}">> -> <<"rate limited">>
    [] b = <<"{", "E:m", "}">>    -> <<"bad request">>
    [] b = <<"{", "E:e0+m", "}">> -> <<"bad request">>
    [] OTHER                      -> <<>>

\* C21: once callAI or streamAI has handled a response that is not ok, it has
\* thrown the error "{provider} API error {status}: {message}", whether or not
\* the response has a reader, having emitted no delta and returned no text;
\* message is error.message of the JSON body, else its message, else the body
\* as read (when it is longer than 200 characters, its first 200 characters
\* and at most one character that marks the cut).
C21_HttpErrorMessage ==
  (stPc # "fetch" /\ ~resp.ok) =>
    /\ stPc = "threw"
    /\ stError = "http"
    /\ deltas = <<>>
    /\ result = <<>>
    /\ Len(errorMsg) >= 4
    /\ SubSeq(errorMsg, 1, 4) = <<stProvider, " API error ", resp.status, ": ">>
    /\ LET part == SubSeq(errorMsg, 5, Len(errorMsg))
       IN  \E err \in {body, <<>>} :
             IF MessageOf(err) # <<>>
             THEN part = MessageOf(err)
             ELSE IF Len(err) <= 200
             THEN part = err
             ELSE /\ Len(part) \in {200, 201}
                  /\ SubSeq(part, 1, 200) = SubSeq(err, 1, 200)

C21_Witness ==
  /\ stKind = "stream"
  /\ stPc = "threw"
  /\ ~resp.ok
  /\ ~resp.reader
  /\ body = <<"{", "E:em+m", "}">>
  /\ errorMsg = <<stProvider, " API error ", "429", ": ", "rate limited">>
  /\ deltas = <<>>

\* C29: when the error body of a response that is not ok carries no JSON
\* message, the part of the thrown message after
\* "{provider} API error {status}: " is at most 200 characters long.
C29_MessagePartAtMost200 ==
  (stPc = "threw" /\ stError = "http" /\ MessageOf(body) = <<>>) =>
    Len(errorMsg) - 4 <= 200

\* C25: for anthropic and google, callAI returns the texts of the parts of
\* the response joined with nothing between them.
C25_CallConcatenatesParts ==
  (stKind = "call" /\ stPc = "returned"
     /\ stProvider \in {"anthropic", "google"}) =>
    LET data == ParseData(body).data
        texts == IF stProvider = "anthropic" THEN data.blocks ELSE data.parts
    IN  result = Flatten(texts)

\* C26: for google, the text callAI returns for a parts array is the text
\* streamAI takes from one event that carries the same parts array.
C26_GoogleStreamEqualsCall ==
  (stKind = "call" /\ stPc = "returned" /\ stProvider = "google") =>
    result = ExtractDelta("google",
                          [NoEvent EXCEPT !.parts = ParseData(body).data.parts])

\* C28: every text streamAI has passed to the delta callback is non-empty, on
\* the read loop and on the path of a response without a reader alike.
C28_DeltasNonEmpty ==
  stKind = "stream" => \A i \in DOMAIN deltas : deltas[i] # <<>>

\* C22: the step that handles an error event leaves the session not
\* streaming, with no current port (the port the error came on disconnected
\* when it was the current one), the action buttons enabled and the cancel
\* button hidden, shows the error in the status line, and leaves the output
\* and the history as they were: the text received so far is not pushed.
C22_ErrorEndsSession ==
  [][evt' = "error" =>
       /\ ~isStreaming'
       /\ currentPort' = 0
       /\ ~buttonsDisabled'
       /\ cancelHidden'
       /\ statusText' = "error"
       /\ UNCHANGED <<responseHistory, historyIndex, outputText>>
       /\ \A p \in PortIds :
            ports'[p].handled = ports[p].handled + 1 =>
              /\ Head(ports[p].inbox).type = "error"
              /\ currentPort = p => ports'[p].ui = "closed"]_vars

C22_Witness ==
  /\ evt = "error"
  /\ ~isStreaming
  /\ currentPort = 0
  /\ ~buttonsDisabled
  /\ statusText = "error"
  /\ responseHistory = <<>>
  /\ \E p \in PortIds : ports[p].ui = "closed" /\ ports[p].raw # <<>>

\* C24: the step that handles a done event shows, and pushes as the newest
\* history entry, the text of the event when that is non-empty and otherwise
\* the text the listener has accumulated; the step that handles a delta
\* appends its text to that accumulation.
C24_DoneRelaysFinalText ==
  [][\A p \in PortIds :
       ports'[p].handled = ports[p].handled + 1 =>
         LET msg == Head(ports[p].inbox)
             final == IF msg.text # <<>> THEN msg.text ELSE ports[p].raw
         IN  /\ evt' \in {"done", "done-threw"} =>
                  /\ msg.type = "done"
                  /\ outputText' = final
                  /\ responseHistory' # <<>>
                  /\ responseHistory'[Len(responseHistory')] = final
                  /\ historyIndex' = Len(responseHistory') - 1
             /\ evt' = "delta" =>
                  ports'[p].raw = ports[p].raw \o msg.text]_vars

C24_Witness ==
  /\ evt = "done"
  /\ outputText # <<>>
  /\ responseHistory = <<outputText>>
  /\ \E p \in PortIds : ports[p].raw = outputText /\ ports[p].ui = "closed"

\* C23: a session that is streaming is eventually not streaming, with no help
\* from the user, when the background's steps and the side panel's listener
\* are allowed to run.
C23_StartEventuallyEnds == isStreaming ~> ~isStreaming

RECURSIVE UnendedTail(_)
\* What follows the last line end of a response text.
UnendedTail(s) ==
  IF s = <<>> \/ s[Len(s)] = "\n" THEN <<>>
  ELSE Append(UnendedTail(SubSeq(s, 1, Len(s) - 1)), s[Len(s)])

\* C31: however the response is cut into reads, the delta callbacks made and
\* the text gathered depend only on the text read so far: the deltas are those
\* of its ended records, in order, full is their concatenation, and the buffer
\* holds what follows its last line end.
C31_ChunkingIndependent ==
  (stKind = "stream" /\ resp.reader /\ stPc \in {"reading", "returned"}) =>
    /\ deltas = TextsOf(stProvider, RecordsOf(Consumed))
    /\ full = Flatten(deltas)
    /\ buffer = UnendedTail(Consumed)
    /\ stPc = "returned" => result = Flatten(TextsOf(stProvider, RecordsOf(body)))

\* C31 witness: in a response whose records are all ended, a read has
\* stopped in the middle of the data: prefix of the second record, after the
\* first record made its delta.
C31_Witness ==
  /\ stPc = "reading"
  /\ body # <<>>
  /\ body[Len(body)] = "\n"
  /\ Len(RecordsOf(body)) = 2
  /\ buffer = <<"da">>
  /\ Len(deltas) = 1
  /\ wire # <<>>

\* C32: when the read loop ends and streamAI returns, the text returned holds
\* the text of every valid record of the response, the last one included when
\* the response ends without a line end after it.
C32_LastRecordCounted ==
  (stKind = "stream" /\ resp.reader /\ stPc = "returned") =>
    result = Flatten(TextsOf(stProvider, RecordsOf(body \o <<"\n">>)))

\* C33: the step that handles a done or an error event of one port leaves
\* every other port as it was, and does not throw on a current-port reference
\* that has been cleared.
C33_TerminalTouchesOwnPortOnly ==
  [][evt' \in {"done", "done-threw", "error"} =>
       /\ evt' # "done-threw"
       /\ \A p, q \in PortIds :
            (ports'[p].handled = ports[p].handled + 1 /\ q # p) =>
              ports'[q] = ports[q]]_vars

\* C34: between handlers, the session is streaming exactly when it holds a
\* port, and the action buttons are disabled exactly when it is streaming.
C34_FlagsAgree ==
  /\ isStreaming <=> currentPort # 0
  /\ buttonsDisabled <=> isStreaming

\* C34 witness: a second request streams, holding its port with the buttons
\* disabled, after the first one was cancelled.
C34_Witness ==
  /\ evt = "delta"
  /\ isStreaming
  /\ currentPort = 2
  /\ buttonsDisabled
  /\ ports[1].cancelled
  /\ ports[1].ui = "closed"

CursorInRange ==
  IF responseHistory = <<>> THEN historyIndex = -1
  ELSE historyIndex \in 0 .. Len(responseHistory) - 1

\* C35: the history cursor is -1 while the history is empty and otherwise
\* within it; a navigation step changes neither the history nor what any
\* listener has accumulated; and the step that handles a done event pushes
\* the full text the background gathered for that very request, whatever
\* navigation took place while it streamed.
C35_NavigationDoesNotDisturb ==
  /\ []CursorInRange
  /\ [][/\ evt' \in {"nav-prev", "nav-next"} =>
            UNCHANGED <<responseHistory, ports, isStreaming, currentPort>>
        /\ evt' \in {"done", "done-threw"} =>
             \A p \in PortIds :
               ports'[p].handled = ports[p].handled + 1 =>
                 /\ responseHistory' # <<>>
                 /\ responseHistory'[Len(responseHistory')] = ports[p].full
                 /\ historyIndex' = Len(responseHistory') - 1]_vars

\* C35 witness: while a request streams and has received text, the user has
\* stepped back to the older of two earlier responses, which the output shows.
C35_Witness ==
  /\ evt = "nav-prev"
  /\ isStreaming
  /\ historyIndex = 0
  /\ outputText = <<8>>
  /\ \E p \in PortIds :
       /\ currentPort = p
       /\ ports[p].raw # <<>>
       /\ ports[p].pc = "reading"

====
